---- MODULE Spec2Model ----
(***************************************************************************)
(* A model of pyscraper/scrape.py: the ONS time-series importer            *)
(* (from_ONS, _timeseries_index, _create_quarterly_index), the IMF WEO     *)
(* panel reshaper (_get_weo_data, float_convert) and the panel selection   *)
(* at the end of from_IMF.                                                 *)
(*                                                                         *)
(* Text is a sequence of one-character strings.  A cell of a raw table is  *)
(* a record: [t |-> "nan"] (missing), [t |-> "str", s |-> text],           *)
(* [t |-> "float", m |-> mantissa, e |-> decimals] (the number m / 10^e)   *)
(* or [t |-> "int", v |-> n] (a non-float, non-text value).                *)
(* A timestamp is <<year, month, day>>.                                    *)
(***************************************************************************)
EXTENDS Integers, Sequences, FiniteSets, TLC

VARIABLES call, ret, pc

vars == <<call, ret, pc>>

----------------------------------------------------------------------------
(* Characters and the Python string methods the code uses.                 *)

LF == "\n"

DigitChars == <<"0", "1", "2", "3", "4", "5", "6", "7", "8", "9">>

Digit == {DigitChars[i] : i \in 1..Len(DigitChars)}

UpperChars == <<"A", "B", "C", "D", "E", "F", "G", "H", "I", "J", "K", "L", "M",
                "N", "O", "P", "Q", "R", "S", "T", "U", "V", "W", "X", "Y", "Z">>

LowerChars == <<"a", "b", "c", "d", "e", "f", "g", "h", "i", "j", "k", "l", "m",
                "n", "o", "p", "q", "r", "s", "t", "u", "v", "w", "x", "y", "z">>

Upper == {UpperChars[i] : i \in 1..Len(UpperChars)}

Lower == {LowerChars[i] : i \in 1..Len(LowerChars)}

Whitespace == {" ", LF}

\* int(c) for a one-character string; callers test IsDigitStr first
DigitVal(c) == (CHOOSE i \in 1..Len(DigitChars) : DigitChars[i] = c) - 1

\* str.isdigit(): non-empty and every character a digit
IsDigitStr(s) == Len(s) > 0 /\ \A i \in 1..Len(s) : s[i] \in Digit

\* int(s) for a text of digits
RECURSIVE IntOf(_)
IntOf(s) ==
    IF Len(s) = 0 THEN 0
    ELSE 10 * IntOf(SubSeq(s, 1, Len(s) - 1)) + DigitVal(s[Len(s)])

\* one character through str.upper() / str.lower()
UpperChar(c) ==
    IF c \in Lower THEN UpperChars[CHOOSE i \in 1..Len(LowerChars) : LowerChars[i] = c]
    ELSE c

LowerChar(c) ==
    IF c \in Upper THEN LowerChars[CHOOSE i \in 1..Len(UpperChars) : UpperChars[i] = c]
    ELSE c

StrUpper(s) == [i \in 1..Len(s) |-> UpperChar(s[i])]

StrLower(s) == [i \in 1..Len(s) |-> LowerChar(s[i])]

\* str.strip(): drop leading and trailing whitespace
RECURSIVE LStrip(_)
LStrip(s) ==
    IF Len(s) > 0 /\ s[1] \in Whitespace THEN LStrip(Tail(s)) ELSE s

RECURSIVE RStrip(_)
RStrip(s) ==
    IF Len(s) > 0 /\ s[Len(s)] \in Whitespace
    THEN RStrip(SubSeq(s, 1, Len(s) - 1))
    ELSE s

Strip(s) == LStrip(RStrip(s))

\* str.split() with no argument: the maximal runs of non-whitespace
RECURSIVE SplitFrom(_, _, _)
SplitFrom(s, i, cur) ==
    IF i > Len(s) THEN (IF Len(cur) > 0 THEN <<cur>> ELSE <<>>)
    ELSE IF s[i] \in Whitespace
         THEN (IF Len(cur) > 0 THEN <<cur>> ELSE <<>>) \o SplitFrom(s, i + 1, <<>>)
         ELSE SplitFrom(s, i + 1, Append(cur, s[i]))

Split(s) == SplitFrom(s, 1, <<>>)

\* str.replace(c, ''): every occurrence of the character removed
RECURSIVE RemoveChar(_, _)
RemoveChar(s, c) ==
    IF Len(s) = 0 THEN <<>>
    ELSE IF s[1] = c THEN RemoveChar(Tail(s), c)
         ELSE <<s[1]>> \o RemoveChar(Tail(s), c)

\* the elements of a sequence selected by a predicate over positions, in order
RECURSIVE SelectIdx(_, _)
SelectIdx(n, keep) ==
    IF n = 0 THEN <<>>
    ELSE IF keep[n] THEN Append(SelectIdx(n - 1, keep), n)
         ELSE SelectIdx(n - 1, keep)

Range(f) == {f[i] : i \in DOMAIN f}

----------------------------------------------------------------------------
(* Floating-point values: the decimal m / 10^e, kept normalised.           *)

RECURSIVE NormFloat(_, _)
NormFloat(m, e) ==
    IF e > 0 /\ m % 10 = 0 THEN NormFloat(m \div 10, e - 1)
    ELSE [t |-> "float", m |-> m, e |-> e]

NaN == [t |-> "nan"]

\* float(text): surrounding whitespace is ignored, then digits with at most one
\* decimal point and at least one digit; anything else raises ValueError.
\* (Signs, exponents and the words "nan"/"inf" are outside the bounded inputs.)
ParseFloat(s) ==
    LET b == Strip(s)
        dots == {i \in 1..Len(b) : b[i] = "."}
        digs == RemoveChar(b, ".")
    IN  IF Cardinality(dots) <= 1 /\ IsDigitStr(digs)
        THEN [ok |-> TRUE,
              v |-> NormFloat(IntOf(digs),
                              IF dots = {} THEN 0
                              ELSE Len(b) - (CHOOSE i \in dots : TRUE))]
        ELSE [ok |-> FALSE, exc |-> "ValueError"]

----------------------------------------------------------------------------
(* Calendar dates as pandas builds them.                                   *)

IsLeap(y) == (y % 4 = 0 /\ y % 100 # 0) \/ y % 400 = 0

DaysIn(y, m) ==
    IF m = 2 THEN (IF IsLeap(y) THEN 29 ELSE 28)
    ELSE IF m \in {4, 6, 9, 11} THEN 30 ELSE 31

\* t1 < t2 for timestamps <<year, month, day>>
DateLt(t1, t2) ==
    \/ t1[1] < t2[1]
    \/ t1[1] = t2[1] /\ t1[2] < t2[2]
    \/ t1[1] = t2[1] /\ t1[2] = t2[2] /\ t1[3] < t2[3]

\* pandas.Timestamp.min is 1677-09-21 00:12:43 and Timestamp.max 2262-04-11
\* 23:47:16 : midnight stamps from 1677-09-22 to 2262-04-11 are representable
InBounds(t) == DateLt(<<1677, 9, 21>>, t) /\ DateLt(t, <<2262, 4, 12>>)

\* str(n) for n >= 0
RECURSIVE IntToStr(_)
IntToStr(n) ==
    IF n < 10 THEN <<DigitChars[n + 1]>>
    ELSE Append(IntToStr(n \div 10), DigitChars[(n % 10) + 1])

\* the fields of s between occurrences of the separator c
RECURSIVE FieldsFrom(_, _, _, _)
FieldsFrom(s, c, i, cur) ==
    IF i > Len(s) THEN <<cur>>
    ELSE IF s[i] = c THEN <<cur>> \o FieldsFrom(s, c, i + 1, <<>>)
         ELSE FieldsFrom(s, c, i + 1, Append(cur, s[i]))

\* pandas' reading of a start date written 'a/b/c': month first (dayfirst is
\* False), so a is the month, b the day and c the year; a first field above
\* 12 is taken as the day instead.  A field that is not a number, a year that
\* is not four digits' worth of text or a day the month does not have is a
\* ValueError.  (Years written with one or two digits, which the date parser
\* completes to the current century, are outside the bounded inputs.)
ParseDateString(s) ==
    LET f == FieldsFrom(s, "/", 1, <<>>)
    IN  IF Len(f) # 3 \/ \E i \in 1..3 : ~IsDigitStr(f[i]) \/ Len(f[3]) # 4
        THEN [ok |-> FALSE, exc |-> "ValueError"]
        ELSE LET a == IntOf(f[1])
                 b == IntOf(f[2])
                 y == IntOf(f[3])
                 m == IF a > 12 THEN b ELSE a
                 d == IF a > 12 THEN a ELSE b
             IN  IF m \in 1..12 /\ d >= 1 /\ d <= DaysIn(y, m)
                 THEN (IF InBounds(<<y, m, d>>)
                       THEN [ok |-> TRUE, v |-> <<y, m, d>>]
                       ELSE [ok |-> FALSE, exc |-> "OutOfBoundsDatetime"])
                 ELSE [ok |-> FALSE, exc |-> "ValueError"]

\* the first quarter end (March, June, September, December) on or after t
QuarterEndOnOrAfter(t) ==
    LET qm == 3 * (((t[2] - 1) \div 3) + 1)
    IN  <<t[1], qm, DaysIn(t[1], qm)>>

\* the quarter end that follows the quarter end t
NextQuarterEnd(t) ==
    IF t[2] = 12 THEN <<t[1] + 1, 3, 31>>
    ELSE <<t[1], t[2] + 3, DaysIn(t[1], t[2] + 3)>>

\* a faulty variant of QuarterEnds: the period is not advanced
QuarterEndsStuck(first, n) == [i \in 1..n |-> first]

RECURSIVE QuarterEnds(_, _)
QuarterEnds(first, n) ==
    IF n = 0 THEN <<>>
    ELSE <<first>> \o QuarterEnds(NextQuarterEnd(first), n - 1)

\* pd.date_range(start, periods=n, freq='Q-DEC'): n consecutive quarter ends,
\* the first one the quarter end on or after the start date
date_range(start, periods) ==
    LET p == ParseDateString(start)
    IN  IF ~p.ok THEN p
        ELSE LET idx == QuarterEnds(QuarterEndOnOrAfter(p.v), periods)
             IN  IF \A i \in 1..Len(idx) : InBounds(idx[i])
                 THEN [ok |-> TRUE, v |-> idx]
                 ELSE [ok |-> FALSE, exc |-> "OutOfBoundsDatetime"]

MonthAbbr == << <<"j","a","n">>, <<"f","e","b">>, <<"m","a","r">>, <<"a","p","r">>,
                <<"m","a","y">>, <<"j","u","n">>, <<"j","u","l">>, <<"a","u","g">>,
                <<"s","e","p">>, <<"o","c","t">>, <<"n","o","v">>, <<"d","e","c">> >>

\* a faulty variant of StrptimeY: the year is stamped at its last day
StrptimeYearEnd(s) ==
    IF Len(s) = 4 /\ IsDigitStr(s)
    THEN [ok |-> TRUE, v |-> <<IntOf(s), 12, 31>>]
    ELSE [ok |-> FALSE, exc |-> "ValueError"]

\* one label through strptime with format '%Y': exactly four digits, giving
\* the first of January of that year.  (pandas hands this format to its ISO
\* 8601 reader, which gives the same answer for every label of the inputs.)
StrptimeY(s) ==
    IF Len(s) = 4 /\ IsDigitStr(s)
    THEN [ok |-> TRUE, v |-> <<IntOf(s), 1, 1>>]
    ELSE [ok |-> FALSE, exc |-> "ValueError"]

\* a faulty variant of StrptimeYb: three letters that name no month are read as January
StrptimeYbLenient(s) ==
    LET rest == SubSeq(s, 5, Len(s))
        mon == StrLower(LStrip(rest))
    IN  IF /\ Len(s) >= 8
           /\ IsDigitStr(SubSeq(s, 1, 4))
           /\ rest[1] \in Whitespace
           /\ Len(mon) = 3
        THEN [ok |-> TRUE,
              v |-> <<IntOf(SubSeq(s, 1, 4)),
                      IF \E i \in 1..Len(MonthAbbr) : MonthAbbr[i] = mon
                      THEN CHOOSE i \in 1..Len(MonthAbbr) : MonthAbbr[i] = mon
                      ELSE 1,
                      1>>]
        ELSE [ok |-> FALSE, exc |-> "ValueError"]

\* one label through strptime with format '%Y %b': four digits, whitespace,
\* a month abbreviation in any case, nothing else; gives the first of the month
StrptimeYb(s) ==
    LET rest == SubSeq(s, 5, Len(s))
        mon == StrLower(LStrip(rest))
    IN  IF /\ Len(s) >= 8
           /\ IsDigitStr(SubSeq(s, 1, 4))
           /\ rest[1] \in Whitespace
           /\ \E i \in 1..Len(MonthAbbr) : MonthAbbr[i] = mon
        THEN [ok |-> TRUE,
              v |-> <<IntOf(SubSeq(s, 1, 4)),
                      CHOOSE i \in 1..Len(MonthAbbr) : MonthAbbr[i] = mon, 1>>]
        ELSE [ok |-> FALSE, exc |-> "ValueError"]

Strptime(s, fmt) == IF fmt = "%Y" THEN StrptimeY(s) ELSE StrptimeYb(s)

\* pd.to_datetime(index, format=fmt, errors='raise'): every label converted on
\* its own; the first label that does not convert raises
to_datetime(labels, fmt) ==
    LET one == [i \in 1..Len(labels) |->
                    LET p == Strptime(labels[i], fmt)
                    IN  IF p.ok /\ ~InBounds(p.v)
                        THEN [ok |-> FALSE, exc |-> "OutOfBoundsDatetime"]
                        ELSE p]
        bad == {i \in 1..Len(labels) : ~one[i].ok}
    IN  IF bad = {} THEN [ok |-> TRUE, v |-> [i \in 1..Len(labels) |-> one[i].v]]
        ELSE one[CHOOSE i \in bad : \A j \in bad : i <= j]

----------------------------------------------------------------------------
(* The ONS importer.  A raw table is a sequence of rows [label, cell]:     *)
(* label is the cell of the column 'Unnamed: 0', cell the cell of the      *)
(* series column.                                                          *)

\* the regular expressions of re_dict, one character class per position:
\* \d{4,4} Q\d$ , \d{4,4}$ , \d{4,4} [A-Z]{3,3}$
re_dict ==
    [Q |-> <<Digit, Digit, Digit, Digit, {" "}, {"Q"}, Digit>>,
     A |-> <<Digit, Digit, Digit, Digit>>,
     M |-> <<Digit, Digit, Digit, Digit, {" "}, Upper, Upper, Upper>>]

\* the pattern matches the characters of s that start at position i
MatchHere(s, i, pat) ==
    /\ i + Len(pat) - 1 <= Len(s)
    /\ \A j \in 1..Len(pat) : s[i + j - 1] \in pat[j]

\* Python's $ at position k: the end of the text, or just before a line feed
\* that ends the text
AtDollar(s, k) == k = Len(s) + 1 \/ (k = Len(s) /\ s[k] = LF)

\* a faulty variant of ReSearch: the match must start at the first character, as with
\* re.match
ReSearchAnchored(pat, s) == MatchHere(s, 1, pat) /\ AtDollar(s, 1 + Len(pat))

\* re.search(pat + '$', s): a match may start anywhere
ReSearch(pat, s) ==
    \E i \in 1..(Len(s) + 1) : MatchHere(s, i, pat) /\ AtDollar(s, i + Len(pat))

\* Series.str.contains(pat, na=False) for one cell: a cell that is not text
\* gives the na value
StrContains(c, pat) == IF c.t = "str" THEN ReSearch(pat, c.s) ELSE FALSE

\* dfraw[criterion]: the rows whose criterion is True, in their order
BoolIndex(df, criterion) ==
    LET idx == SelectIdx(Len(df), criterion)
    IN  [k \in 1..Len(idx) |-> df[idx[k]]]

\* _create_quarterly_index: labels is the text of the index, in order
create_quarterly_index(labels) ==
    IF Len(labels) = 0 THEN [ok |-> FALSE, exc |-> "IndexError"]
    ELSE
    LET thedate == Split(labels[1])
    IN  IF Len(thedate) < 2 THEN [ok |-> FALSE, exc |-> "IndexError"]
        ELSE LET q == thedate[2][Len(thedate[2])]
             IN  IF q \notin Digit THEN [ok |-> FALSE, exc |-> "ValueError"]
                 ELSE LET starting_quarter == IntToStr(3 * DigitVal(q))
                          starting_year == thedate[1]
                      IN  date_range(<<"1", "/">> \o starting_quarter \o <<"/">>
                                         \o starting_year,
                                     Len(labels))

\* _timeseries_index: the new index of the frame, by frequency
timeseries_index(df, freq) ==
    LET labels == [i \in 1..Len(df) |-> df[i].label.s]
    IN  IF freq = "Q" THEN create_quarterly_index(labels)
        ELSE IF freq = "M" THEN to_datetime(labels, "%Y %b")
        ELSE IF freq = "A" THEN to_datetime(labels, "%Y")
        ELSE [ok |-> TRUE, v |-> labels]

\* one cell through DataFrame.astype(float): float(text) without any cleaning
AsFloat(c) ==
    IF c.t = "str" THEN ParseFloat(c.s)
    ELSE IF c.t = "int" THEN [ok |-> TRUE, v |-> NormFloat(c.v, 0)]
    ELSE [ok |-> TRUE, v |-> c]

\* df.astype(float): every cell, or the error of the first cell that fails
astype_float(cells) ==
    LET one == [i \in 1..Len(cells) |-> AsFloat(cells[i])]
        bad == {i \in 1..Len(cells) : ~one[i].ok}
    IN  IF bad = {} THEN [ok |-> TRUE, v |-> [i \in 1..Len(cells) |-> one[i].v]]
        ELSE one[CHOOSE i \in bad : \A j \in bad : i <= j]

\* a faulty variant of IsEmpty: the emptiness test never succeeds
IsEmptyNever(df) == FALSE

\* the dtype read_csv gives the label column is object when the column holds
\* text (or the table has no rows); a column of missing values only is read
\* as float64, and .str on it raises AttributeError
HasStrAccessor(df) == Len(df) = 0 \/ \E i \in 1..Len(df) : df[i].label.t = "str"

\* dfraw[criterion].empty
IsEmpty(df) == Len(df) = 0

\* from_ONS after the download: the outcome of the call.  kind is "Series"
\* (with its index and values), "None" (the message was printed and nothing
\* returned) or "raise"; kept is the filtered table, ran the later stages
\* the call entered and, once _timeseries_index has returned, index the
\* index it gave the frame.
from_ONS(dfraw, freq0) ==
    LET freq == StrUpper(freq0)
    IN  IF ~HasStrAccessor(dfraw)
        THEN [kind |-> "raise", exc |-> "AttributeError", kept |-> <<>>, ran |-> {}]
        ELSE IF Len(freq) # 1 \/ freq[1] \notin DOMAIN re_dict
        THEN [kind |-> "raise", exc |-> "KeyError", kept |-> <<>>, ran |-> {}]
        ELSE
        LET criterion == [i \in 1..Len(dfraw) |->
                              StrContains(dfraw[i].label, re_dict[freq[1]])]
            kept == BoolIndex(dfraw, criterion)
        IN  IF IsEmpty(kept)
            THEN [kind |-> "None", kept |-> kept, ran |-> {}]
            ELSE
            LET ix == timeseries_index(kept, freq[1])
            IN  IF ~ix.ok
                THEN [kind |-> "raise", exc |-> ix.exc, kept |-> kept,
                      ran |-> {"_timeseries_index"}]
                ELSE
                LET fl == astype_float([i \in 1..Len(kept) |-> kept[i].cell])
                IN  IF ~fl.ok
                    THEN [kind |-> "raise", exc |-> fl.exc, kept |-> kept,
                          index |-> ix.v,
                          ran |-> {"_timeseries_index", "astype"}]
                    ELSE [kind |-> "Series", index |-> ix.v, values |-> fl.v,
                          kept |-> kept,
                          ran |-> {"_timeseries_index", "astype"}]

----------------------------------------------------------------------------
(* Bounded inputs of the ONS importer.                                     *)

MaxRows == 2

Txt(s) == [t |-> "str", s |-> s]

\* first-column cells: annual, quarterly and monthly period labels, a year
\* no timestamp can hold, labels with extra text before the period, a quarter
\* digit outside 1..4, a label ending in a line feed, three capitals that
\* name no month, a missing cell
LabelInputs ==
    { Txt(<<"2","0","0","2">>),
      Txt(<<"2","0","0","3">>),
      Txt(<<"1","6","0","0">>),
      Txt(<<"1","2","0","0","2">>),
      Txt(<<"2","0","0","2"," ","Q","1">>),
      Txt(<<"2","0","0","2"," ","Q","2">>),
      Txt(<<"2","0","0","2"," ","Q","9">>),
      Txt(<<"2","0","0","2"," ","Q","0">>),
      Txt(<<"X","2","0","0","2"," ","Q","2">>),
      Txt(<<"2","0","0","1"," ","Q","4">>),
      Txt(<<"2","0","0","3"," ","Q","4",LF>>),
      Txt(<<"2","0","0","2"," ","J","A","N">>),
      Txt(<<"2","0","0","4"," ","F","E","B">>),
      Txt(<<"2","0","0","2"," ","X","Y","Z">>),
      NaN }

\* series cells: plain numeric text, text with a thousands comma, text that
\* is no number, the native float 2.5
CellInputs ==
    { Txt(<<"1",".","5">>),
      Txt(<<"1",",","2","3","4",".","5">>),
      Txt(<<"a","b","c">>),
      NormFloat(25, 1) }

RowInputs == [label : LabelInputs, cell : CellInputs]

\* the tables read_csv can hand over with a textual label column: no rows, or
\* at least one label that is text
TableInputs ==
    {df \in UNION {[1..n -> RowInputs] : n \in 0..MaxRows} : HasStrAccessor(df)}

FreqInputs == {<<"A">>, <<"Q">>, <<"M">>, <<"q">>}

ONSCalls == [op : {"from_ONS"}, dfraw : TableInputs, freq : FreqInputs]

NoRet == [kind |-> "pending"]

InitONS == call \in ONSCalls /\ ret = NoRet /\ pc = "called"

\* the call runs to its end
FromONS ==
    /\ pc = "called"
    /\ call.op = "from_ONS"
    /\ ret' = from_ONS(call.dfraw, call.freq)
    /\ pc' = "returned"
    /\ UNCHANGED call

NextONS == FromONS

SpecONS == InitONS /\ [][NextONS]_vars

----------------------------------------------------------------------------
(* Properties of the ONS importer.                                         *)

Returned == pc = "returned"

\* the frequency the call asked for, as its upper-case letter
FreqOf == IF call.freq \in {<<"q">>, <<"Q">>} THEN "Q" ELSE call.freq[1]

FourDigits(s) == Len(s) = 4 /\ \A i \in 1..4 : s[i] \in Digit

MonthNames == << <<"J","A","N">>, <<"F","E","B">>, <<"M","A","R">>, <<"A","P","R">>,
                 <<"M","A","Y">>, <<"J","U","N">>, <<"J","U","L">>, <<"A","U","G">>,
                 <<"S","E","P">>, <<"O","C","T">>, <<"N","O","V">>, <<"D","E","C">> >>

\* the shape of a period, with any quarter digit and any three capitals
LooseShape(w, f) ==
    IF f = "A" THEN FourDigits(w)
    ELSE IF f = "Q"
         THEN Len(w) = 7 /\ FourDigits(SubSeq(w, 1, 4)) /\ w[5] = " " /\ w[6] = "Q"
              /\ w[7] \in Digit
         ELSE Len(w) = 8 /\ FourDigits(SubSeq(w, 1, 4)) /\ w[5] = " "
              /\ \A i \in 6..8 : w[i] \in Upper

\* the shape the specification gives a period label: the quarter digit in 1..4
WholeShape(w, f) ==
    LooseShape(w, f) /\ (f = "Q" => w[7] \in {"1", "2", "3", "4"})

\* a period label that names a period: the three capitals a month abbreviation
ValidLabel(w, f) ==
    WholeShape(w, f) /\ (f = "M" => \E i \in 1..12 : MonthNames[i] = SubSeq(w, 6, 8))

\* the text ends with the loose shape, a single final line feed not counted
EndsInShape(c, f) ==
    /\ c.t = "str"
    /\ LET b == IF Len(c.s) > 0 /\ c.s[Len(c.s)] = LF
                THEN SubSeq(c.s, 1, Len(c.s) - 1) ELSE c.s
       IN  \E k \in 1..Len(b) : LooseShape(SubSeq(b, k, Len(b)), f)

LabelMatchesWhole(r) == r.label.t = "str" /\ WholeShape(r.label.s, FreqOf)

LabelEndsInShape(r) == EndsInShape(r.label, FreqOf)

\* C1 as stated: the filter keeps exactly the rows whose whole label has the
\* frequency's shape (quarter digit 1..4), in their original order.
C1_WholeLabelFilter ==
    Returned => ret.kept = SelectSeq(call.dfraw, LabelMatchesWhole)

\* C1 amended: the filter keeps exactly the rows whose label is text that ENDS
\* with the frequency's pattern (any text may precede it, the quarter digit is
\* any digit 0..9, a single final line feed is ignored), in original order.
C1_SuffixFilter ==
    Returned => ret.kept = SelectSeq(call.dfraw, LabelEndsInShape)

\* C1 witness: a two-row table of which the filter kept one row, whose label
\* carries text before the period.
C1_Witness ==
    /\ Returned
    /\ Len(call.dfraw) = 2
    /\ Len(ret.kept) = 1
    /\ ~LabelMatchesWhole(ret.kept[1])

IndexBuilt == Returned /\ "astype" \in ret.ran

\* the i-th of consecutive quarter ends that start at quarter n of year y
QuarterEndAt(y, n, i) ==
    LET tot == (n - 1) + (i - 1)
        mm == 3 * ((tot % 4) + 1)
    IN  <<y + (tot \div 4), mm, IF mm \in {6, 9} THEN 30 ELSE 31>>

\* C3: quarterly, first label 'YYYY Qn' with n in 1..4 and k rows: the index
\* is the k consecutive quarter ends that start at the end of month 3n of YYYY.
C3_QuarterlyIndexStartsAtLabel ==
    (IndexBuilt /\ FreqOf = "Q" /\ WholeShape(ret.kept[1].label.s, "Q"))
        => LET w == ret.kept[1].label.s
           IN  ret.index = [i \in 1..Len(ret.kept) |->
                               QuarterEndAt(IntOf(SubSeq(w, 1, 4)), DigitVal(w[7]), i)]

\* the first and the last day of the period a valid annual or monthly label names
PeriodMonth(w, f) ==
    IF f = "A" THEN 0 ELSE CHOOSE i \in 1..12 : MonthNames[i] = SubSeq(w, 6, 8)

FirstDayOf(w, f) ==
    <<IntOf(SubSeq(w, 1, 4)), IF f = "A" THEN 1 ELSE PeriodMonth(w, f), 1>>

LastDayOf(w, f) ==
    LET y == IntOf(SubSeq(w, 1, 4))
        m == IF f = "A" THEN 12 ELSE PeriodMonth(w, f)
    IN  <<y, m, DaysIn(y, m)>>

AllKeptValid ==
    /\ Len(ret.kept) > 0
    /\ \A i \in 1..Len(ret.kept) : ValidLabel(ret.kept[i].label.s, FreqOf)

YearInRange(w) == IntOf(SubSeq(w, 1, 4)) \in 1678..2261

\* C4 as stated: annual and monthly labels become the LAST day of the period.
C4_PeriodEndDates ==
    (IndexBuilt /\ FreqOf \in {"A", "M"})
        => \A i \in 1..Len(ret.kept) :
               ret.index[i] = LastDayOf(ret.kept[i].label.s, FreqOf)

\* C4 amended: for annual and monthly frequency every filtered label that
\* names a period (year 1678..2261) is converted, independently of the other
\* labels, to the FIRST day of the period: 'YYYY' to January 1 of YYYY and
\* 'YYYY MMM' to the first day of that month.
C4_PeriodStartDates ==
    /\ (IndexBuilt /\ FreqOf \in {"A", "M"})
           => \A i \in 1..Len(ret.kept) :
                  ret.index[i] = FirstDayOf(ret.kept[i].label.s, FreqOf)
    /\ (Returned /\ FreqOf \in {"A", "M"} /\ AllKeptValid
            /\ \A i \in 1..Len(ret.kept) : YearInRange(ret.kept[i].label.s))
           => IndexBuilt

\* C4 witness: a monthly index of two labels, built.
C4_Witness ==
    /\ IndexBuilt
    /\ FreqOf = "M"
    /\ Len(ret.kept) = 2
    /\ ret.index[1] = <<2002, 1, 1>>
    /\ ret.index[2] = <<2004, 2, 1>>

StrictlyIncreasing(ix) == \A i \in 1..(Len(ix) - 1) : DateLt(ix[i], ix[i + 1])

\* C5 as stated: every returned Series has a strictly increasing index of as
\* many entries as filtered rows.
C5_IndexStrictlyIncreasing ==
    (Returned /\ ret.kind = "Series")
        => (Len(ret.index) = Len(ret.kept) /\ StrictlyIncreasing(ret.index))

\* C5 amended: every returned Series has an index of as many entries as
\* filtered rows; the index is strictly increasing when the frequency is
\* quarterly, and for annual and monthly frequency when the filtered labels
\* are themselves in strictly increasing chronological order.
C5_IndexLengthAndOrder ==
    (Returned /\ ret.kind = "Series")
        => /\ Len(ret.index) = Len(ret.kept)
           /\ (\/ FreqOf = "Q"
               \/ StrictlyIncreasing([i \in 1..Len(ret.kept) |->
                                         LastDayOf(ret.kept[i].label.s, FreqOf)]))
                  => StrictlyIncreasing(ret.index)

\* C5 witness: a quarterly Series of two rows.
C5_Witness ==
    /\ Returned
    /\ ret.kind = "Series"
    /\ FreqOf = "Q"
    /\ Len(ret.index) = 2

----------------------------------------------------------------------------
(* The IMF WEO panel reshaper.  A raw table is [columns, rows]: columns the *)
(* column names (text) in file order, rows the rows, each a sequence of     *)
(* cells in column order.  The cells of the two key columns are labels.     *)

CodeCol == <<"W","E","O"," ","S","u","b","j","e","c","t"," ","C","o","d","e">>

CountryCol == <<"C","o","u","n","t","r","y">>

None == [t |-> "None"]

\* a faulty variant of float_convert: the commas are left in the text
float_convert_keepcommas(s) ==
    IF s.t = "str" THEN ParseFloat(s.s)
    ELSE IF s.t \in {"float", "nan"} THEN [ok |-> TRUE, v |-> s]
    ELSE [ok |-> TRUE, v |-> None]

\* float_convert: text has its commas removed and goes through float(), which
\* may raise; a float (a missing value is one) is returned as it is; for any
\* other type the type is printed and nothing (None) is returned
float_convert(s) ==
    IF s.t = "str" THEN ParseFloat(RemoveChar(s.s, ","))
    ELSE IF s.t \in {"float", "nan"} THEN [ok |-> TRUE, v |-> s]
    ELSE [ok |-> TRUE, v |-> None]

\* the position of a column name in the header
ColPos(columns, name) == CHOOSE j \in 1..Len(columns) : columns[j] = name

\* a faulty variant of keep_cols: no column is dropped
keep_cols_all(columns) ==
    LET otherpos == SelectIdx(Len(columns),
                              [j \in 1..Len(columns) |->
                                   columns[j] \notin {CodeCol, CountryCol}])
    IN  <<CodeCol, CountryCol>> \o [k \in 1..Len(otherpos) |-> columns[otherpos[k]]]

\* keep_cols: the two key columns, then every column whose name isdigit()
keep_cols(columns) ==
    LET digitpos == SelectIdx(Len(columns),
                              [j \in 1..Len(columns) |-> IsDigitStr(columns[j])])
    IN  <<CodeCol, CountryCol>> \o [k \in 1..Len(digitpos) |-> columns[digitpos[k]]]

\* set_index(['Country', 'WEO Subject Code']) then stack(): one entry per row
\* and remaining column, rows in order and columns in order, the entries
\* whose cell is missing dropped
RECURSIVE StackRow(_, _, _, _)
StackRow(columns, row, kept, k) ==
    IF k > Len(kept) THEN <<>>
    ELSE LET c == row[ColPos(columns, kept[k])]
             rest == StackRow(columns, row, kept, k + 1)
         IN  IF c.t = "nan" THEN rest
             ELSE <<[Country |-> row[ColPos(columns, CountryCol)],
                     Code |-> row[ColPos(columns, CodeCol)],
                     year |-> kept[k],
                     cell |-> c]>> \o rest

RECURSIVE Stack(_, _, _, _)
Stack(columns, rows, kept, i) ==
    IF i > Len(rows) THEN <<>>
    ELSE StackRow(columns, rows[i], kept, 3) \o Stack(columns, rows, kept, i + 1)

\* a faulty variant of HasDuplicateEntries: a repeated entry is not noticed
HasDuplicateEntriesNever(long) == FALSE

\* unstack refuses an index in which an entry occurs twice
HasDuplicateEntries(long) ==
    \E a, b \in 1..Len(long) :
        /\ a < b
        /\ long[a].Country = long[b].Country
        /\ long[a].Code = long[b].Code
        /\ long[a].year = long[b].year

\* unstack(level=1): the codes become the columns of a frame indexed by
\* (Country, year); a (Country, year) row has a missing value in the column
\* of a code it has no entry for
Unstacked(long, country, year, code) ==
    LET hit == {a \in 1..Len(long) : /\ long[a].Country = country
                                      /\ long[a].year = year
                                      /\ long[a].Code = code}
    IN  IF hit = {} THEN NaN ELSE long[CHOOSE a \in hit : TRUE].cell

\* _get_weo_data after the download: the outcome of the call, a Panel with
\* items (codes), major_axis (countries), minor_axis (years) and a value for
\* every combination of the three (missing where the frame has no row), or
\* the error raised
get_weo_data(dfraw) ==
    LET kept == keep_cols(dfraw.columns)
        long == Stack(dfraw.columns, dfraw.rows, kept, 1)
        index == {<<long[a].Country, long[a].year>> : a \in 1..Len(long)}
        codes == {long[a].Code : a \in 1..Len(long)}
        dftyped == [ix \in index, c \in codes |->
                        float_convert(Unstacked(long, ix[1], ix[2], c))]
        major == {ix[1] : ix \in index}
        minor == {ix[2] : ix \in index}
    IN  IF HasDuplicateEntries(long)
        THEN [kind |-> "raise", exc |-> "ValueError", stage |-> "unstack"]
        ELSE IF \E ix \in index, c \in codes : ~dftyped[ix, c].ok
        THEN [kind |-> "raise", exc |-> "ValueError", stage |-> "applymap"]
        ELSE [kind |-> "Panel",
              items |-> codes,
              major_axis |-> major,
              minor_axis |-> minor,
              data |-> [c \in codes, e \in major, y \in minor |->
                            IF <<e, y>> \in index THEN dftyped[<<e, y>>, c].v
                            ELSE NaN]]

----------------------------------------------------------------------------
(* Bounded inputs of the reshaper.                                         *)

MaxWeoRows == 2

EstimatesCol ==
    <<"E","s","t","i","m","a","t","e","s"," ","S","t","a","r","t"," ","A","f","t","e","r">>

\* the header: the two key columns, a column that is not a year, two years
WeoColumns ==
    <<CodeCol, CountryCol, EstimatesCol, <<"2","0","0","0">>, <<"2","0","0","1">>>>

\* a row: code, country, the cell of the non-year column (missing or the
\* number 2012), the cell of 2000 (missing, 5.0, '1,234.5', 'abc' or a
\* non-float 3) and the cell of 2001 (missing or 7.0)
WeoRowInputs ==
    { <<code, country, est, c0, c1>> :
        code \in {"X", "Y"}, country \in {"UK", "FR"},
        est \in {NaN, NormFloat(2012, 0)},
        c0 \in {NaN, NormFloat(5, 0), Txt(<<"1",",","2","3","4",".","5">>),
                Txt(<<"a","b","c">>), [t |-> "int", v |-> 3]},
        c1 \in {NaN, NormFloat(7, 0)} }

WeoCalls ==
    [op : {"_get_weo_data"},
     dfraw : [columns : {WeoColumns},
              rows : UNION {[1..n -> WeoRowInputs] : n \in 0..MaxWeoRows}]]

InitWEO == call \in WeoCalls /\ ret = NoRet /\ pc = "called"

\* the call runs to its end
GetWeoData ==
    /\ pc = "called"
    /\ call.op = "_get_weo_data"
    /\ ret' = get_weo_data(call.dfraw)
    /\ pc' = "returned"
    /\ UNCHANGED call

NextWEO == GetWeoData

SpecWEO == InitWEO /\ [][NextWEO]_vars

----------------------------------------------------------------------------
(* The selection at the end of from_IMF.  The panel a download returns has  *)
(* its three axes as sequences of labels and a value (possibly missing) for *)
(* every combination.  A selection key is [none |-> TRUE] (the argument was *)
(* not given) or [none |-> FALSE, labels |-> a list of labels].             *)

NoKey == [none |-> TRUE]

Key(labels) == [none |-> FALSE, labels |-> labels]

\* a faulty variant of LocRefuses: unknown labels are never refused
LocRefusesNever(axis, key) == FALSE

\* .loc with a list refuses a non-empty list none of whose labels is on the
\* axis ("None of [...] are in the [...]")
LocRefuses(axis, key) ==
    /\ ~key.none
    /\ Len(key.labels) > 0
    /\ \A k \in 1..Len(key.labels) : key.labels[k] \notin Range(axis)

\* the axis of the result: the whole axis for the slice ':' , else the list
\* as given, labels that are not on the axis included
LocAxis(axis, key) == IF key.none THEN axis ELSE key.labels

\* rawdata.loc[series, countries, :] : each list is looked up on its axis; a
\* label of a list that the panel does not have gets missing values
PanelLoc(rawdata, series, countries) ==
    IF LocRefuses(rawdata.items, series) \/ LocRefuses(rawdata.major_axis, countries)
    THEN [kind |-> "raise", exc |-> "KeyError"]
    ELSE LET items == LocAxis(rawdata.items, series)
             major == LocAxis(rawdata.major_axis, countries)
         IN  [kind |-> "Panel",
              items |-> items,
              major_axis |-> major,
              minor_axis |-> rawdata.minor_axis,
              data |-> [c \in Range(items), e \in Range(major),
                        y \in Range(rawdata.minor_axis) |->
                            IF c \in Range(rawdata.items)
                               /\ e \in Range(rawdata.major_axis)
                            THEN rawdata.data[c, e, y]
                            ELSE NaN]]

\* from_IMF: rawdata is the panel the download of the chosen dataset returns
from_IMF(dataset, series, countries, rawdata) ==
    LET in_data == Strip(StrLower(dataset))
    IN  IF in_data \notin {<<"w","e","o">>, <<"p","u","b","f","i","n">>}
        THEN [kind |-> "raise", exc |-> "ValueError"]
        ELSE IF series.none /\ countries.none
        THEN [kind |-> "Panel", items |-> rawdata.items,
              major_axis |-> rawdata.major_axis,
              minor_axis |-> rawdata.minor_axis, data |-> rawdata.data]
        ELSE IF series.none THEN PanelLoc(rawdata, NoKey, countries)
        ELSE IF countries.none THEN PanelLoc(rawdata, series, NoKey)
        ELSE PanelLoc(rawdata, series, countries)

----------------------------------------------------------------------------
(* Bounded inputs of the selection.                                        *)

YearAxis == <<"2000", "2001">>

\* the number a panel of the inputs holds at a combination, when it holds one:
\* 5 in 2000 and 7 in 2001 for code X of the UK, other numbers elsewhere
CellValue(c, e, y) ==
    NormFloat((IF y = "2000" THEN 5 ELSE 7) + (IF c = "Y" THEN 10 ELSE 0)
                  + (IF e = "FR" THEN 100 ELSE 0), 0)

PanelInputs ==
    UNION { { [items |-> it, major_axis |-> ma, minor_axis |-> YearAxis,
               data |-> [c \in Range(it), e \in Range(ma), y \in Range(YearAxis) |->
                             IF <<c, e, y>> \in present THEN CellValue(c, e, y)
                             ELSE NaN]] :
              present \in SUBSET (Range(it) \X Range(ma) \X Range(YearAxis)) } :
            it \in {<<"X">>, <<"X", "Y">>}, ma \in {<<"UK">>, <<"FR", "UK">>} }

SeriesInputs ==
    {NoKey, Key(<<>>), Key(<<"X">>), Key(<<"Y">>), Key(<<"Y", "X">>),
     Key(<<"Z">>), Key(<<"X", "Z">>)}

CountryInputs ==
    {NoKey, Key(<<>>), Key(<<"UK">>), Key(<<"FR">>), Key(<<"UK", "FR">>),
     Key(<<"DE">>), Key(<<"UK", "DE">>)}

DatasetInputs ==
    {<<"w","e","o">>, <<" ","W","E","O",LF>>, <<"p","u","b","f","i","n">>, <<"g","f","s">>}

IMFCalls ==
    [op : {"from_IMF"}, dataset : DatasetInputs, series : SeriesInputs,
     countries : CountryInputs, rawdata : PanelInputs]

InitIMF == call \in IMFCalls /\ ret = NoRet /\ pc = "called"

\* the call runs to its end
FromIMF ==
    /\ pc = "called"
    /\ call.op = "from_IMF"
    /\ ret' = from_IMF(call.dataset, call.series, call.countries, call.rawdata)
    /\ pc' = "returned"
    /\ UNCHANGED call

NextIMF == FromIMF

SpecIMF == InitIMF /\ [][NextIMF]_vars

----------------------------------------------------------------------------
(* Numeric coercion on its own, and the three calls that coerce.           *)

\* cells: numeric text, text with thousands commas, text that is no number,
\* floats, a missing value, values of another type
CoerceInputs ==
    { Txt(<<"1",".","5">>), Txt(<<"1",",","2","3","4",".","5">>),
      Txt(<<"1",",","0","0","0",",","0","0","0">>), Txt(<<"7">>),
      Txt(<<"a","b","c">>), Txt(<<"1",".","2",".","3">>), Txt(<<",">>),
      NormFloat(25, 1), NormFloat(0, 0), NaN,
      [t |-> "int", v |-> 3], [t |-> "int", v |-> 0] }

CoerceCalls == [op : {"float_convert"}, s : CoerceInputs]

InitCoerce ==
    /\ call \in CoerceCalls \cup ONSCalls \cup WeoCalls
    /\ ret = NoRet
    /\ pc = "called"

\* float_convert called on one cell
FloatConvert ==
    /\ pc = "called"
    /\ call.op = "float_convert"
    /\ ret' = (LET r == float_convert(call.s)
               IN  IF r.ok THEN [kind |-> "value", v |-> r.v]
                   ELSE [kind |-> "raise", exc |-> r.exc])
    /\ pc' = "returned"
    /\ UNCHANGED call

NextCoerce == FloatConvert \/ FromONS \/ GetWeoData

SpecCoerce == InitCoerce /\ [][NextCoerce]_vars

----------------------------------------------------------------------------
(* Properties of the reshaper.                                             *)

WeoReturned == Returned /\ call.op = "_get_weo_data"

WeoRows == call.dfraw.rows

AllDigits(name) == Len(name) > 0 /\ \A i \in 1..Len(name) : name[i] \in Digit

\* the positions of the year columns in the header of the raw table
YearCols == {j \in 1..Len(call.dfraw.columns) : AllDigits(call.dfraw.columns[j])}

\* the rows of the raw table for (entity e, code c) whose cell in column j is
\* not missing
SourceRows(e, c, j) ==
    {i \in 1..Len(WeoRows) : /\ WeoRows[i][2] = e
                             /\ WeoRows[i][1] = c
                             /\ WeoRows[i][j].t # "nan"}

UniquePairs ==
    \A a, b \in 1..Len(WeoRows) :
        (WeoRows[a][1] = WeoRows[b][1] /\ WeoRows[a][2] = WeoRows[b][2]) => a = b

\* some (entity, code, year) has a non-missing cell in two rows
DuplicatedTriple ==
    \E a, b \in 1..Len(WeoRows), j \in YearCols :
        /\ a < b
        /\ WeoRows[a][1] = WeoRows[b][1]
        /\ WeoRows[a][2] = WeoRows[b][2]
        /\ WeoRows[a][j].t # "nan"
        /\ WeoRows[b][j].t # "nan"

\* the panel has a value at (code c, entity e, year name y)
HasValue(c, e, y) ==
    /\ c \in ret.items
    /\ e \in ret.major_axis
    /\ y \in ret.minor_axis
    /\ ret.data[c, e, y] # NaN

\* C6: with every (entity, code) pair in at most one row, the panel has a
\* value at (code, entity, year) exactly when the source has a row for
\* (entity, code) with a non-missing cell in the all-digit column of that
\* name; the value is the coercion of that cell; a column that is neither a
\* key column nor all digits is on no axis; and the reshape itself never
\* refuses such a table.
C6_PanelHoldsExactlySourceCells ==
    (WeoReturned /\ UniquePairs)
        => /\ ~(ret.kind = "raise" /\ ret.stage = "unstack")
           /\ ret.kind = "Panel"
                => /\ \A j \in 1..Len(call.dfraw.columns) :
                          \A e \in {"UK", "FR"}, c \in {"X", "Y"} :
                              LET y == call.dfraw.columns[j]
                                  src == IF j \in YearCols THEN SourceRows(e, c, j)
                                         ELSE {}
                              IN  /\ HasValue(c, e, y) <=> src # {}
                                  /\ \A i \in src :
                                         ret.data[c, e, y] = float_convert(WeoRows[i][j]).v
                   /\ \A y \in ret.minor_axis :
                          \E j \in YearCols : call.dfraw.columns[j] = y

\* C6 witness: a panel built from two rows of different pairs, one of them
\* with a number in the non-year column and a hole in 2001.
C6_Witness ==
    /\ WeoReturned
    /\ UniquePairs
    /\ Len(WeoRows) = 2
    /\ ret.kind = "Panel"
    /\ \E i \in 1..2 : WeoRows[i][3] # NaN /\ WeoRows[i][4] # NaN /\ WeoRows[i][5] = NaN
    /\ \E c \in ret.items, e \in ret.major_axis, y \in ret.minor_axis :
           ret.data[c, e, y] = NaN

\* C10 as stated: with an (entity, code, year) held by two rows the build
\* completes and the panel holds the value of the last of the rows.
C10_DuplicateKeepsLast ==
    (WeoReturned /\ DuplicatedTriple)
        => /\ ret.kind = "Panel"
           /\ \A j \in YearCols, e \in {"UK", "FR"}, c \in {"X", "Y"} :
                  LET src == SourceRows(e, c, j)
                  IN  src # {} =>
                          ret.data[c, e, call.dfraw.columns[j]] =
                              float_convert(WeoRows[CHOOSE i \in src :
                                                        \A k \in src : k <= i][j]).v

\* C10 amended: when two or more rows have the same (entity, code) pair and a
\* non-missing cell in the same year column, the build fails in the reshape
\* with a duplicate-entries ValueError and no panel is returned; rows of the
\* same pair with no such common year column are not refused.
C10_DuplicateRejected ==
    WeoReturned
        => ((ret.kind = "raise" /\ ret.stage = "unstack" /\ ret.exc = "ValueError")
                <=> DuplicatedTriple)

\* C10 witness: two rows for the same pair, both with a number in 2001; the
\* call raised.
C10_Witness ==
    /\ WeoReturned
    /\ Len(WeoRows) = 2
    /\ WeoRows[1][1] = WeoRows[2][1]
    /\ WeoRows[1][2] = WeoRows[2][2]
    /\ WeoRows[1][5] # NaN
    /\ WeoRows[2][5] # NaN
    /\ ret.kind = "raise"

----------------------------------------------------------------------------
(* Properties of the selection.                                            *)

IMFSelected ==
    /\ Returned
    /\ call.op = "from_IMF"
    /\ call.dataset \in {<<"w","e","o">>, <<" ","W","E","O",LF>>, <<"p","u","b","f","i","n">>}

Requested(key, axis) ==
    IF key.none THEN Range(axis) ELSE Range(key.labels) \cap Range(axis)

AllOnAxis(key, axis) == key.none \/ Range(key.labels) \subseteq Range(axis)

NoneOnAxis(key, axis) ==
    ~key.none /\ key.labels # <<>> /\ Range(key.labels) \cap Range(axis) = {}

\* the values of the result are those of the panel wherever both have the
\* combination
ValuesKept ==
    \A c \in Range(ret.items) \cap Range(call.rawdata.items),
       e \in Range(ret.major_axis) \cap Range(call.rawdata.major_axis),
       y \in Range(call.rawdata.minor_axis) :
        ret.data[c, e, y] = call.rawdata.data[c, e, y]

\* C7 as stated: the selection never fails; the result's axes are the panel's
\* codes and entities restricted to the requested ones, time axis and values
\* unchanged; a label the panel lacks gives an empty selection on its axis.
C7_SelectionNeverFails ==
    IMFSelected
        => /\ ret.kind = "Panel"
           /\ Range(ret.items) = Requested(call.series, call.rawdata.items)
           /\ Range(ret.major_axis) = Requested(call.countries, call.rawdata.major_axis)
           /\ ret.minor_axis = call.rawdata.minor_axis
           /\ ValuesKept

\* C7 amended: the selection only narrows axes when the requested labels are
\* in the panel: the variable axis is then the requested codes (all when none
\* are given), the entity axis the requested entities (all when none are
\* given), the time axis and the retained values are unchanged, and selecting
\* with neither list returns a panel equal to the original.  A non-empty list
\* none of whose labels is in the panel makes the call fail with a KeyError;
\* a list of which only some labels are in the panel is answered with the
\* list as the axis, the unknown labels holding missing values only.
C7_SelectionNarrowsKnownLabels ==
    IMFSelected
        => /\ (NoneOnAxis(call.series, call.rawdata.items)
                  \/ NoneOnAxis(call.countries, call.rawdata.major_axis))
                 <=> (ret.kind = "raise" /\ ret.exc = "KeyError")
           /\ ret.kind = "Panel"
                => /\ ret.items = (IF call.series.none THEN call.rawdata.items
                                   ELSE call.series.labels)
                   /\ ret.major_axis = (IF call.countries.none
                                        THEN call.rawdata.major_axis
                                        ELSE call.countries.labels)
                   /\ ret.minor_axis = call.rawdata.minor_axis
                   /\ ValuesKept
                   /\ \A c \in Range(ret.items), e \in Range(ret.major_axis),
                         y \in Range(ret.minor_axis) :
                          (c \notin Range(call.rawdata.items)
                               \/ e \notin Range(call.rawdata.major_axis))
                              => ret.data[c, e, y] = NaN
                   /\ (AllOnAxis(call.series, call.rawdata.items)
                           /\ AllOnAxis(call.countries, call.rawdata.major_axis))
                          => /\ Range(ret.items)
                                    = Requested(call.series, call.rawdata.items)
                             /\ Range(ret.major_axis)
                                    = Requested(call.countries, call.rawdata.major_axis)
                   /\ (call.series.none /\ call.countries.none)
                          => /\ ret.items = call.rawdata.items
                             /\ ret.major_axis = call.rawdata.major_axis
                             /\ ret.data = call.rawdata.data

\* C7 witness: codes ['X'] and entities ['UK'] selected from a panel of two
\* codes and two entities that holds 5 and 7 for them.
C7_Witness ==
    /\ IMFSelected
    /\ call.series = Key(<<"X">>)
    /\ call.countries = Key(<<"UK">>)
    /\ Len(call.rawdata.items) = 2
    /\ Len(call.rawdata.major_axis) = 2
    /\ ret.kind = "Panel"
    /\ ret.items = <<"X">>
    /\ ret.major_axis = <<"UK">>
    /\ ret.data["X", "UK", "2000"] = NormFloat(5, 0)
    /\ ret.data["X", "UK", "2001"] = NormFloat(7, 0)

----------------------------------------------------------------------------
(* Properties of the numeric coercion.                                     *)

\* text made of digits and at most one decimal point, with a digit
PlainNumber(s) ==
    /\ \A i \in 1..Len(s) : s[i] \in Digit \cup {"."}
    /\ Cardinality({i \in 1..Len(s) : s[i] = "."}) <= 1
    /\ \E i \in 1..Len(s) : s[i] \in Digit

\* text that is a number once its commas are taken out
NumberWithCommas(s) ==
    /\ \A i \in 1..Len(s) : s[i] \in Digit \cup {".", ","}
    /\ Cardinality({i \in 1..Len(s) : s[i] = "."}) <= 1
    /\ \E i \in 1..Len(s) : s[i] \in Digit

\* the cells the reshaper hands to float_convert: the non-missing cells of the
\* year columns
WeoCells == {WeoRows[i][j] : i \in 1..Len(WeoRows), j \in YearCols}

\* the cells the ONS importer hands to astype(float)
ONSKeptCells == {ret.kept[i].cell : i \in 1..Len(ret.kept)}

\* C8 as stated: coercion of a cell never aborts a build: for text that is no
\* number the coercer returns a marker, and the call still returns.
C8_CoercionNeverAborts ==
    Returned
        => /\ call.op = "float_convert" => ret.kind = "value"
           /\ call.op = "_get_weo_data" => ~(ret.kind = "raise" /\ ret.stage = "applymap")
           /\ call.op = "from_ONS" => ~(ret.kind = "raise" /\ "astype" \in ret.ran)

\* C8 amended: the coercer returns the parsed number for text that is a number
\* once its commas are removed, a float unchanged and the could-not-convert
\* marker (None) for a value of any other type, and these cells never abort a
\* build; text that is not a number after removing commas (such as 'abc')
\* raises ValueError, which aborts the panel build, and the Series build, which
\* converts with astype(float) and removes no commas, is aborted by any text
\* cell that is not a plain number.
C8_CoercionAbortsOnlyOnBadText ==
    Returned
        => /\ call.op = "float_convert"
                => /\ (call.s.t = "str" /\ NumberWithCommas(call.s.s))
                          => (ret.kind = "value" /\ ret.v.t = "float")
                   /\ (call.s.t = "str" /\ ~NumberWithCommas(call.s.s))
                          => (ret.kind = "raise" /\ ret.exc = "ValueError")
                   /\ call.s.t \in {"float", "nan"}
                          => (ret.kind = "value" /\ ret.v = call.s)
                   /\ call.s.t = "int" => (ret.kind = "value" /\ ret.v = None)
                   /\ call.s = Txt(<<"1",",","2","3","4",".","5">>)
                          => ret.v = [t |-> "float", m |-> 12345, e |-> 1]
           /\ (call.op = "_get_weo_data" /\ ~DuplicatedTriple)
                => ((ret.kind = "raise" /\ ret.stage = "applymap")
                        <=> \E c \in WeoCells : c.t = "str" /\ ~NumberWithCommas(c.s))
           /\ (call.op = "from_ONS" /\ "astype" \in ret.ran)
                => (ret.kind = "raise"
                        <=> \E c \in ONSKeptCells : c.t = "str" /\ ~PlainNumber(c.s))

\* C8 witness: a panel built although a cell of another type was met, its
\* value the marker.
C8_Witness ==
    /\ Returned
    /\ call.op = "_get_weo_data"
    /\ Len(WeoRows) = 2
    /\ ret.kind = "Panel"
    /\ \E c \in ret.items, e \in ret.major_axis, y \in ret.minor_axis :
           ret.data[c, e, y] = None
    /\ \E c \in ret.items, e \in ret.major_axis, y \in ret.minor_axis :
           ret.data[c, e, y] = [t |-> "float", m |-> 12345, e |-> 1]

====
